---------------------------- MODULE Spec2Model ----------------------------
(***************************************************************************)
(* Model of src/LabExp3.py: ColetorPRsGitHub, a collector of pull-request  *)
(* review records from the GitHub API.                                     *)
(*                                                                         *)
(* Six specifications share the module:                                    *)
(*   SpecClassifier  eh_pr_revisado_por_humano on bounded PR snapshots     *)
(*   SpecDetalhe     obter_dados_pr_seguro under every pattern of failures *)
(*   SpecConcorrente the pool's workers inside verificar_limite_taxa       *)
(*   SpecThrottle    verificar_limite_taxa / tratar_limite_taxa_atingido   *)
(*                   on a clock counted in seconds                         *)
(*   Spec            one run of executar: checkpoint load, discovery,      *)
(*                   per-repository collection and salvar_para_csv         *)
(*   SpecRetomada    the script run again on the files a run left          *)
(* Timestamps of pull requests are counted in minutes.                     *)
(***************************************************************************)
EXTENDS Integers, Sequences, FiniteSets, TLC

(***************************************************************************)
(* Configuration (src/LabExp3.py lines 12-21).                             *)
(* MAX_REPOSITORIOS (200) and MIN_PRS (100) are scaled down to 3 and 2 so  *)
(* that the remote world below can reach and miss both thresholds.         *)
(***************************************************************************)
HORAS_MINIMAS_REVISAO == 1
MAX_REPOSITORIOS == 3
MIN_PRS == 2
MAX_THREADS == 3
DELAY_REQUISICAO == 15
MAX_TENTATIVAS == 2
ESPERA_LIMITE_TAXA == 3600
\* line 69: the remaining quota under which verificar_limite_taxa waits
LIMITE_RESTANTE_MINIMO == 100
\* line 71: seconds added to the reported reset time
MARGEM_RESET == 10
\* line 39: per_page=100, the results of one page; scaled down to 2
PER_PAGE == 2

(***************************************************************************)
(* Optional values (None in the source).                                   *)
(***************************************************************************)
Nenhum == [tem |-> FALSE, em |-> 0]
Algum(t) == [tem |-> TRUE, em |-> t]

(***************************************************************************)
(* eh_pr_revisado_por_humano (lines 141-158).                              *)
(* A pull-request snapshot is a record                                     *)
(*   [state, reviews, created_at, closed_at, merged_at]                    *)
(* and `falha` names the read that fails, if any:                          *)
(*   "estado"         pr.state raises                                      *)
(*   "quota_reviews"  pr.get_reviews() raises RateLimitExceededException   *)
(*   "erro_reviews"   pr.get_reviews() raises another exception            *)
(*   "datas"          pr.created_at / closed_at / merged_at raises         *)
(* corpo_eh_pr_revisado is the body of the try block: its outcome is the   *)
(* returned value or the exception raised.                                 *)
(***************************************************************************)
FalhasClassificador == {"nenhuma", "estado", "quota_reviews", "erro_reviews", "datas"}

Excecoes == {"RateLimitExceededException", "Exception"}

\* line 156 with ">=" in place of ">"
limiar_revisao_mutante(duracao) == duracao >= HORAS_MINIMAS_REVISAO * 60

\* line 156: (data_fechamento - data_criacao) > timedelta(hours=HORAS_MINIMAS_REVISAO)
limiar_revisao(duracao) == duracao > HORAS_MINIMAS_REVISAO * 60

corpo_eh_pr_revisado(pr, falha) ==
    IF falha = "estado" THEN "Exception"
    ELSE IF pr.state \notin {"closed", "merged"} THEN "False"
    ELSE IF falha = "quota_reviews" THEN "RateLimitExceededException"
    ELSE IF falha = "erro_reviews" THEN "Exception"
    ELSE IF pr.reviews < 1 THEN "False"
    ELSE IF falha = "datas" THEN "Exception"
    ELSE LET data_fechamento == IF pr.closed_at.tem THEN pr.closed_at ELSE pr.merged_at
         IN  IF ~data_fechamento.tem THEN "False"
             ELSE IF limiar_revisao(data_fechamento.em - pr.created_at) THEN "True"
             ELSE "False"

eh_pr_revisado_por_humano(pr, falha) ==
    LET r == corpo_eh_pr_revisado(pr, falha)
    IN  IF r \in Excecoes THEN "False" ELSE r

(***************************************************************************)
(* The remote state (the GitHub API's answers), the same for every run.    *)
(* Busca is the answer of search_repositories("stars:>1", sort="stars",    *)
(* order="desc") (lines 99-103); PRsDe(r) the numbers of r's pull requests *)
(* as get_pulls(sort='created', direction='desc') lists them (line 223).   *)
(*   r1  two pull requests, neither reviewed by a human                    *)
(*   r2  one pull request: fewer than MIN_PRS                              *)
(*   r3  two pull requests, both reviewed by a human                       *)
(*   r4  four pull requests (more than MAX_THREADS), none reviewed by a    *)
(*       human                                                             *)
(***************************************************************************)
Busca == <<"r1", "r2", "r3", "r4">>

PRsDe(r) == IF r = "r2" THEN <<1>>
            ELSE IF r = "r4" THEN <<4, 3, 2, 1>>
            ELSE <<2, 1>>

PRRemoto(r, n) ==
    IF r \in {"r1", "r4"} /\ n = 1
    THEN [state |-> "open", reviews |-> 1, created_at |-> 0,
          closed_at |-> Nenhum, merged_at |-> Nenhum, comments |-> 1,
          approvals |-> 1, changes_requested |-> 0, participants |-> 2]
    ELSE IF r \in {"r1", "r4"}
    THEN [state |-> "closed", reviews |-> 0, created_at |-> 0,
          closed_at |-> Algum(120), merged_at |-> Nenhum, comments |-> 0,
          approvals |-> 0, changes_requested |-> 0, participants |-> 0]
    ELSE IF n = 1
    THEN [state |-> "closed", reviews |-> 1, created_at |-> 0,
          closed_at |-> Algum(120), merged_at |-> Algum(120), comments |-> 1,
          approvals |-> 1, changes_requested |-> 0, participants |-> 2]
    ELSE [state |-> "closed", reviews |-> 2, created_at |-> 0,
          closed_at |-> Algum(61), merged_at |-> Nenhum, comments |-> 0,
          approvals |-> 1, changes_requested |-> 1, participants |-> 2]

\* repo.get_pulls(state='all').totalCount (line 116)
contagem_prs(r) == Len(PRsDe(r))

(***************************************************************************)
(* obter_dados_pr_seguro (lines 160-215).                                  *)
(* A record keeps the dedup key and the two activity counts that tell a    *)
(* first-attempt record from a retried one.  `falhas[t]` names what fails  *)
(* in attempt t:                                                           *)
(*   "cls_quota", "cls_erro"  the classifier's get_reviews() raises        *)
(*   "quota"  a read of the body raises RateLimitExceededException         *)
(*   "erro"   a read of the body raises another exception                  *)
(* The result is [registro, cooldowns, tentativas]: the record returned    *)
(* (or None), the calls of tratar_limite_taxa_atingido and the attempts.   *)
(***************************************************************************)
FalhasTentativa == {"nenhuma", "cls_quota", "cls_erro", "quota", "erro"}

\* the failures of the attempts of one call: an attempt is made only when every
\* attempt before it ended in RateLimitExceededException
FalhasPorTentativa ==
    {fs \in [1..(MAX_TENTATIVAS + 1) -> FalhasTentativa] :
        \A t \in 1..MAX_TENTATIVAS :
            fs[t] # "quota" => \A u \in (t + 1)..(MAX_TENTATIVAS + 1) : fs[u] = "nenhuma"}

FalhaNoClassificador(f) ==
    IF f = "cls_quota" THEN "quota_reviews"
    ELSE IF f = "cls_erro" THEN "erro_reviews"
    ELSE "nenhuma"

\* lines 166-205 with the two lists fetched in every attempt
pr_data_mutante(pr, nome_repo, n, tentativa) ==
    [repo |-> nome_repo,
     pr_number |-> n,
     comments |-> pr.comments,
     review_count |-> pr.reviews,
     approval_count |-> pr.approvals,
     request_changes_count |-> pr.changes_requested,
     unique_participants |-> pr.participants]

\* lines 166-205: the record assembled in attempt `tentativa`; `comments` and
\* `reviews` are the fetched lists in the first attempt and [] afterwards
\* (lines 184, 187), and the five counts of lines 190-202 are taken of them
pr_data(pr, nome_repo, n, tentativa) ==
    [repo |-> nome_repo,
     pr_number |-> n,
     comments |-> IF tentativa = 1 THEN pr.comments ELSE 0,
     review_count |-> IF tentativa = 1 THEN pr.reviews ELSE 0,
     approval_count |-> IF tentativa = 1 THEN pr.approvals ELSE 0,
     request_changes_count |-> IF tentativa = 1 THEN pr.changes_requested ELSE 0,
     unique_participants |-> IF tentativa = 1 THEN pr.participants ELSE 0]

SemRegistro == [tem |-> FALSE,
                val |-> [repo |-> "", pr_number |-> 0, comments |-> 0, review_count |-> 0,
                         approval_count |-> 0, request_changes_count |-> 0,
                         unique_participants |-> 0]]

\* line 208 with the budget one attempt larger
pode_repetir_mutante(tentativa) == tentativa <= MAX_TENTATIVAS + 1

\* line 208: tentativa <= MAX_TENTATIVAS
pode_repetir(tentativa) == tentativa <= MAX_TENTATIVAS

\* lines 184 and 187: the sub-fetches attempt `tentativa` issues when it meets
\* failure f.  A failure of the body is raised by get_comments() in the first
\* attempt; later attempts issue no sub-fetch and a failure there comes from
\* the completion of the pull request (line 196).
leituras_da_tentativa(tentativa, f) ==
    IF tentativa # 1 THEN {}
    ELSE IF f \in {"quota", "erro"} THEN {<<tentativa, "get_comments">>}
    ELSE {<<tentativa, "get_comments">>, <<tentativa, "get_reviews">>}

SemResultado(tentativa) ==
    [registro |-> SemRegistro, cooldowns |-> 0, tentativas |-> tentativa,
     leituras |-> {}]

RECURSIVE obter_dados_pr_seguro(_, _, _, _, _)
obter_dados_pr_seguro(pr, nome_repo, n, tentativa, falhas) ==
    LET f == falhas[tentativa]
    IN  IF eh_pr_revisado_por_humano(pr, FalhaNoClassificador(f)) = "False"
        THEN SemResultado(tentativa)
        ELSE IF f = "quota"
        THEN IF pode_repetir(tentativa)
             THEN LET r == obter_dados_pr_seguro(pr, nome_repo, n, tentativa + 1, falhas)
                  IN  [r EXCEPT !.cooldowns = @ + 1,
                                !.leituras = @ \cup leituras_da_tentativa(tentativa, f)]
             ELSE [SemResultado(tentativa) EXCEPT
                       !.leituras = leituras_da_tentativa(tentativa, f)]
        ELSE IF f = "erro"
        THEN [SemResultado(tentativa) EXCEPT
                  !.leituras = leituras_da_tentativa(tentativa, f)]
        ELSE [registro |-> [tem |-> TRUE, val |-> pr_data(pr, nome_repo, n, tentativa)],
              cooldowns |-> 0, tentativas |-> tentativa,
              leituras |-> leituras_da_tentativa(tentativa, f)]

(***************************************************************************)
(* salvar_para_csv (lines 247-267).                                        *)
(* A CSV file is [existe, linhas].  A file with no line is what to_csv     *)
(* writes for a DataFrame without columns (or what a truncation leaves):   *)
(* pd.read_csv raises EmptyDataError on it.                                *)
(***************************************************************************)
Chave(l) == <<l.repo, l.pr_number>>

Chaves(linhas) == {Chave(linhas[i]) : i \in 1..Len(linhas)}

\* line 259: drop_duplicates(subset=['repo', 'pr_number']), pandas' default
\* keep='first': of the rows of one key the first stays
RECURSIVE drop_duplicates(_)
drop_duplicates(linhas) ==
    IF linhas = <<>> THEN <<>>
    ELSE LET resto == drop_duplicates(SubSeq(linhas, 1, Len(linhas) - 1))
             ultima == linhas[Len(linhas)]
         IN  IF Chave(ultima) \in Chaves(resto) THEN resto ELSE Append(resto, ultima)

\* lines 251-263: what to_csv is asked to write, or the exception read_csv raises
salvar_para_csv(arquivo, novos_dados) ==
    IF arquivo.existe
    THEN IF arquivo.linhas = <<>>
         THEN [ok |-> FALSE, linhas |-> <<>>]
         ELSE [ok |-> TRUE, linhas |-> drop_duplicates(arquivo.linhas \o novos_dados)]
    ELSE [ok |-> TRUE, linhas |-> novos_dados]

(***************************************************************************)
(* State.                                                                  *)
(***************************************************************************)
VARIABLES
    \* -- classifier (SpecClassifier)
    cls_pr,      \* the snapshot under classification
    cls_falha,   \* the failing read
    cls_ret,     \* "pendente", then the value returned
    \* -- throttle (SpecThrottle); the hard-limit flag is shared with Spec
    relogio,                      \* datetime.now(timezone.utc), in seconds
    ultimo_tempo_requisicao,      \* self.ultimo_tempo_requisicao
    limite_requisicoes_restante,  \* self.limite_requisicoes_restante
    limite_taxa_atingido,         \* self.limite_taxa_atingido
    thr_pc,          \* "ocioso" | "liberado" (verificar returned) | "quota"
    thr_ret,         \* value returned by the last verificar_limite_taxa
    inicio_chamada,  \* history: start of the last remote call
    intervalo,       \* history: gap between the last two remote call starts
    ult_verif,       \* history: what the last verificar_limite_taxa observed
    \* -- obter_dados_pr_seguro on its own (SpecDetalhe)
    det_in,          \* the call: [repo, n, falhas]
    det_ret,         \* what the call returned (tentativas = 0: not yet)
    \* -- the pool's workers in verificar_limite_taxa (SpecConcorrente)
    w_pc,            \* where each worker is
    w_agora,         \* each worker's local `agora` (line 58)
    w_acorda,        \* the time at which each worker's time.sleep ends
    \* -- executar (Spec)
    exec_pc,         \* where the coordinating thread is
    run,             \* which run of the script this is
    arquivo_antigo,  \* D:\github_pr_reviews_antigo.csv: the repo column's values
    arquivo_novo,    \* D:\github_pr_reviews_novo.csv: [existe, linhas]
    repositorios_processados,  \* self.repositorios_processados
    repositorios,    \* obter_repositorios_top: the list being built / returned
    tentativas,      \* obter_repositorios_top: tentativas
    pos,             \* obter_repositorios_top: index of `repo` in `busca`
    idx,             \* executar: index of `repo` in `repositorios`
    pendentes,       \* coletar_prs_repositorio: submitted, not yet started
    em_execucao,     \* coletar_prs_repositorio: running in the pool
    dados_pr,        \* coletar_prs_repositorio: dados_pr
    novos_dados_pr,  \* executar: novos_dados_pr
    a_gravar,        \* salvar_para_csv: the lines to_csv is writing
    consultados,     \* history: repositories whose pull requests were counted
    coletados,       \* history: keys of the records collected, in all runs
    persistidos_antes, \* history: repositories with lines in the store at startup
    duravel,         \* history: keys the store held when it was last at rest
    houve_falha,     \* history: a persist failed or was cut, or the process died
    chaves_iniciais, \* history: keys the store held before the first run
    buscas_ok,       \* history: pull requests of this repository that the
                     \*          classifier lets through and whose own fetch met
                     \*          no failure it could not retry
    limite_na_coleta, \* history: tratar_limite_taxa_atingido was called by a
                     \*          worker or by the listing, in this run
    listagens_quota  \* history: listings of the current repository that raised
                     \*          RateLimitExceededException

vars_cls == <<cls_pr, cls_falha, cls_ret>>

vars_thr == <<relogio, ultimo_tempo_requisicao, limite_requisicoes_restante,
              thr_pc, thr_ret, inicio_chamada, intervalo, ult_verif>>

vars_conc == <<w_pc, w_agora, w_acorda>>

vars_det == <<det_in, det_ret>>

\* what the actions of one specification leave alone
vars_exec == <<exec_pc, run, arquivo_antigo, arquivo_novo, repositorios_processados,
               repositorios, tentativas, pos, idx, pendentes, em_execucao, dados_pr,
               novos_dados_pr, a_gravar, consultados, coletados, persistidos_antes,
               duravel, houve_falha, chaves_iniciais, buscas_ok, limite_na_coleta,
               listagens_quota>>

fora_cls == <<vars_thr, vars_exec, vars_conc, vars_det, limite_taxa_atingido>>

fora_thr == <<vars_cls, vars_exec, vars_conc, vars_det>>

fora_exec == <<vars_cls, vars_thr, vars_conc, vars_det>>

vars == <<cls_pr, cls_falha, cls_ret,
          relogio, ultimo_tempo_requisicao, limite_requisicoes_restante,
          limite_taxa_atingido, thr_pc, thr_ret, inicio_chamada, intervalo, ult_verif,
          w_pc, w_agora, w_acorda, det_in, det_ret, vars_exec>>

(***************************************************************************)
(* SpecClassifier: the classifier applied to every snapshot of a bounded   *)
(* set, under every failure.                                               *)
(***************************************************************************)
MaxReviews == 2

Fechamentos == {Nenhum, Algum(30), Algum(60), Algum(61), Algum(120)}

Snapshots ==
    [state : {"open", "closed", "merged"},
     reviews : 0..MaxReviews,
     created_at : {0},
     closed_at : Fechamentos,
     merged_at : {Nenhum, Algum(90)}]

SnapshotOcioso == [state |-> "open", reviews |-> 0, created_at |-> 0,
                   closed_at |-> Nenhum, merged_at |-> Nenhum]

\* __init__ (lines 26-28)
InitRelogio ==
    /\ relogio = 0
    /\ ultimo_tempo_requisicao = 0
    /\ limite_requisicoes_restante = 5000
    /\ thr_pc = "ocioso"
    /\ thr_ret = FALSE
    /\ inicio_chamada = Nenhum
    /\ intervalo = Nenhum
    /\ ult_verif = [falhou |-> FALSE, restante |-> 5000, reset |-> 0, retornou_em |-> 0]

InitThr == InitRelogio /\ limite_taxa_atingido = FALSE

ArquivoAusente == [existe |-> FALSE, linhas |-> <<>>]

\* the state of the coordinating thread while another component is studied
InitExecOcioso ==
    /\ exec_pc = "inativo"
    /\ run = 1
    /\ arquivo_antigo = {}
    /\ arquivo_novo = ArquivoAusente
    /\ repositorios_processados = {}
    /\ repositorios = <<>>
    /\ tentativas = 0
    /\ pos = 0
    /\ idx = 0
    /\ pendentes = <<>>
    /\ em_execucao = {}
    /\ dados_pr = <<>>
    /\ novos_dados_pr = <<>>
    /\ a_gravar = <<>>
    /\ consultados = {}
    /\ coletados = {}
    /\ persistidos_antes = {}
    /\ duravel = {}
    /\ houve_falha = FALSE
    /\ chaves_iniciais = {}
    /\ buscas_ok = {}
    /\ limite_na_coleta = FALSE
    /\ listagens_quota = 0

\* line 225: the workers of the pool, none of them started
Workers == 1..MAX_THREADS

InitConc ==
    /\ w_pc = [w \in Workers |-> "fora"]
    /\ w_agora = [w \in Workers |-> 0]
    /\ w_acorda = [w \in Workers |-> 0]

\* no call of obter_dados_pr_seguro is studied on its own
InitDetOcioso ==
    /\ det_in = [repo |-> "", n |-> 0, falhas |-> <<>>]
    /\ det_ret = SemResultado(0)

InitCls == /\ cls_pr = SnapshotOcioso
           /\ cls_falha = "nenhuma"
           /\ cls_ret = "ocioso"

InitClassifier ==
    /\ cls_pr \in Snapshots
    /\ cls_falha \in FalhasClassificador
    /\ cls_ret = "pendente"
    /\ InitThr
    /\ InitExecOcioso
    /\ InitConc
    /\ InitDetOcioso

Classificar ==
    /\ cls_ret = "pendente"
    /\ cls_ret' = eh_pr_revisado_por_humano(cls_pr, cls_falha)
    /\ UNCHANGED <<cls_pr, cls_falha>>
    /\ UNCHANGED fora_cls

NextClassifier == Classificar

\* what the claim's four conditions say of a snapshot
QualificaC4(pr) ==
    LET fecho == IF pr.closed_at.tem THEN pr.closed_at ELSE pr.merged_at
    IN  /\ pr.state \in {"closed", "merged"}
        /\ pr.reviews >= 1
        /\ fecho.tem
        /\ fecho.em - pr.created_at > HORAS_MINIMAS_REVISAO * 60

\* C4: eh_pr_revisado_por_humano returns True exactly when the state is closed
\* or merged, there is at least one review, the close/merge timestamp is not
\* null and it lies strictly more than HORAS_MINIMAS_REVISAO after created_at,
\* with no read failing; otherwise it returns False, and it never raises.
C4_ClassificadorCorreto ==
    cls_ret \notin {"pendente", "ocioso"} =>
        /\ cls_ret \in {"True", "False"}
        /\ (cls_ret = "True") <=> (QualificaC4(cls_pr) /\ cls_falha = "nenhuma")

\* C4 witness: a merged pull request closed 61 minutes after its creation, with
\* a review, has been classified as reviewed
C4_Witness ==
    /\ cls_ret = "True"
    /\ cls_pr.state = "merged"
    /\ cls_pr.closed_at = Algum(61)
    /\ cls_pr.reviews = 1

SpecClassifier == InitClassifier /\ [][NextClassifier]_vars

(***************************************************************************)
(* SpecDetalhe: obter_dados_pr_seguro (lines 160-215) called once, with    *)
(* tentativa = 1, for every pull request of the remote state under every   *)
(* pattern of failures.  The pattern names a failure for one attempt more  *)
(* than the budget allows, so that the budget is what ends the retries.    *)
(***************************************************************************)
fora_det == <<vars_cls, vars_thr, vars_conc, vars_exec, limite_taxa_atingido>>

PadroesDeFalha == [1..(MAX_TENTATIVAS + 2) -> FalhasTentativa]

ChamadasDetalhe ==
    {c \in [repo : {Busca[i] : i \in 1..Len(Busca)}, n : 1..4, falhas : PadroesDeFalha] :
        \E i \in 1..Len(PRsDe(c.repo)) : PRsDe(c.repo)[i] = c.n}

InitDetalhe ==
    /\ det_in \in ChamadasDetalhe
    /\ det_ret = SemResultado(0)
    /\ InitThr
    /\ InitCls
    /\ InitExecOcioso
    /\ InitConc

\* line 226: executor.submit(self.obter_dados_pr_seguro, pr, repo.full_name)
ObterDadosPr ==
    /\ det_ret.tentativas = 0
    /\ det_ret' = obter_dados_pr_seguro(PRRemoto(det_in.repo, det_in.n), det_in.repo,
                                         det_in.n, 1, det_in.falhas)
    /\ UNCHANGED det_in
    /\ UNCHANGED fora_det

NextDetalhe == ObterDadosPr

SpecDetalhe == InitDetalhe /\ [][NextDetalhe]_vars

\* the classifier lets the pull request of the call through in attempt t
PassaClassificador(t) ==
    eh_pr_revisado_por_humano(PRRemoto(det_in.repo, det_in.n),
                              FalhaNoClassificador(det_in.falhas[t])) = "True"

\* the first attempt that does not end in a quota failure of the body
PrimeiraSemQuota ==
    CHOOSE t \in 1..(MAX_TENTATIVAS + 2) :
        /\ ~(PassaClassificador(t) /\ det_in.falhas[t] = "quota") \/ t = MAX_TENTATIVAS + 2
        /\ \A u \in 1..(t - 1) : PassaClassificador(u) /\ det_in.falhas[u] = "quota"

\* C12: the call ends after at most MAX_TENTATIVAS + 1 attempts and at most
\* MAX_TENTATIVAS cooldowns, one cooldown before each retry; it retries only
\* after a quota failure, so it ends at the first attempt that meets none (or
\* at the last the budget allows), and an attempt that ends in a failure
\* returns no record.
C12_RepeticaoLimitada ==
    det_ret.tentativas > 0 =>
        /\ det_ret.tentativas <= MAX_TENTATIVAS + 1
        /\ det_ret.cooldowns <= MAX_TENTATIVAS
        /\ det_ret.cooldowns = det_ret.tentativas - 1
        /\ det_ret.tentativas = IF PrimeiraSemQuota <= MAX_TENTATIVAS + 1
                                 THEN PrimeiraSemQuota ELSE MAX_TENTATIVAS + 1
        /\ det_in.falhas[det_ret.tentativas] # "nenhuma" => ~det_ret.registro.tem

\* C12 witness: every attempt of a qualifying pull request met a quota failure:
\* the call gave up after MAX_TENTATIVAS + 1 attempts and MAX_TENTATIVAS cooldowns
C12_Witness ==
    /\ det_in.repo = "r3"
    /\ \A t \in 1..(MAX_TENTATIVAS + 1) : det_in.falhas[t] = "quota"
    /\ det_ret.tentativas = MAX_TENTATIVAS + 1
    /\ det_ret.cooldowns = MAX_TENTATIVAS
    /\ ~det_ret.registro.tem

\* attempt t of the call met a quota failure: RateLimitExceededException was
\* raised by the classifier's get_reviews() or by a read of the body
QuotaNaTentativa(t) ==
    \/ corpo_eh_pr_revisado(PRRemoto(det_in.repo, det_in.n),
                            FalhaNoClassificador(det_in.falhas[t]))
           = "RateLimitExceededException"
    \/ PassaClassificador(t) /\ det_in.falhas[t] = "quota"

\* C14: an attempt that met a quota failure, at whatever call site, is followed
\* by a cooldown and a further attempt unless the retry budget is spent; the
\* call makes one cooldown for every such attempt within the budget.
C14_QuotaSempreCooldown ==
    det_ret.tentativas > 0 =>
        /\ \A t \in 1..det_ret.tentativas :
               QuotaNaTentativa(t) => (t < det_ret.tentativas \/ ~pode_repetir(t))
        /\ det_ret.cooldowns >=
               Cardinality({t \in 1..det_ret.tentativas :
                               QuotaNaTentativa(t) /\ pode_repetir(t)})

\* C15: get_comments() and get_reviews() are issued in the first attempt only,
\* and a record returned by a later attempt has comments, review_count,
\* approval_count, request_changes_count and unique_participants all 0.
C15_SubBuscasNaPrimeira ==
    det_ret.tentativas > 0 =>
        /\ \A l \in det_ret.leituras : l[1] = 1
        /\ (det_ret.registro.tem /\ det_ret.tentativas > 1) =>
               /\ det_ret.registro.val.comments = 0
               /\ det_ret.registro.val.review_count = 0
               /\ det_ret.registro.val.approval_count = 0
               /\ det_ret.registro.val.request_changes_count = 0
               /\ det_ret.registro.val.unique_participants = 0

\* C15 witness: the first attempt for r3's pull request 1 (one comment, one
\* review) met a quota failure at get_comments() and the second returned a record
C15_Witness ==
    /\ det_in.repo = "r3"
    /\ det_in.n = 1
    /\ det_ret.tentativas = 2
    /\ det_ret.registro.tem
    /\ det_ret.leituras = {<<1, "get_comments">>}
    /\ det_ret.registro.val.comments = 0

(***************************************************************************)
(* SpecThrottle: one caller at a time (the coordinating thread) calls      *)
(* verificar_limite_taxa and then issues its remote call.                  *)
(***************************************************************************)
MaxRelogio == 40

\* time that passes between two uses of the throttle
Passos == {5, 20}

\* core.remaining as reported by get_rate_limit()
Restantes == {LIMITE_RESTANTE_MINIMO - 1, LIMITE_RESTANTE_MINIMO}

\* core.reset as reported by get_rate_limit(), relative to `agora`
Resets == {0 - 20, 0, 30}

\* lines 58-62: the time at which the spacing sleep ends
fim_espera_delay(agora, ultimo) ==
    LET tempo_desde_ultima == agora - ultimo
    IN  IF tempo_desde_ultima < DELAY_REQUISICAO
        THEN agora + (DELAY_REQUISICAO - tempo_desde_ultima)
        ELSE agora

\* lines 64-78, get_rate_limit() raising: caught at line 75, False returned
VerificarFalha ==
    /\ thr_pc = "ocioso"
    /\ relogio <= MaxRelogio
    /\ relogio' = fim_espera_delay(relogio, ultimo_tempo_requisicao)
    /\ thr_ret' = FALSE
    /\ thr_pc' = "liberado"
    /\ ult_verif' = [falhou |-> TRUE, restante |-> limite_requisicoes_restante,
                     reset |-> 0, retornou_em |-> relogio']
    /\ UNCHANGED fora_thr
    /\ UNCHANGED <<ultimo_tempo_requisicao, limite_requisicoes_restante,
                   limite_taxa_atingido, inicio_chamada, intervalo>>

\* lines 56-78 with get_rate_limit() answering (restante, reset)
VerificarLimiteTaxa ==
    /\ thr_pc = "ocioso"
    /\ relogio <= MaxRelogio
    /\ \E restante \in Restantes, dr \in Resets :
          LET agora == relogio
              t1 == fim_espera_delay(agora, ultimo_tempo_requisicao)
              tempo_reset == agora + dr
              tempo_espera == (tempo_reset - agora) + MARGEM_RESET
          IN  /\ limite_requisicoes_restante' = restante
              /\ ultimo_tempo_requisicao' = t1
              /\ IF restante < LIMITE_RESTANTE_MINIMO /\ tempo_espera >= 0
                  THEN relogio' = t1 + tempo_espera /\ thr_ret' = TRUE
                  ELSE \* quota is fine, or time.sleep(negative) raised ValueError
                       relogio' = t1 /\ thr_ret' = FALSE
              /\ ult_verif' = [falhou |-> FALSE, restante |-> restante,
                               reset |-> tempo_reset, retornou_em |-> relogio']
    /\ thr_pc' = "liberado"
    /\ UNCHANGED fora_thr
    /\ UNCHANGED <<limite_taxa_atingido, inicio_chamada, intervalo>>

\* the remote call the caller issues once verificar_limite_taxa has returned
\* (e.g. lines 116, 148, 184, 187, 223); it may raise RateLimitExceededException
ChamadaRemota ==
    /\ thr_pc = "liberado"
    /\ inicio_chamada' = Algum(relogio)
    /\ intervalo' = IF inicio_chamada.tem THEN Algum(relogio - inicio_chamada.em)
                     ELSE Nenhum
    /\ \E quota \in BOOLEAN : thr_pc' = IF quota THEN "quota" ELSE "ocioso"
    /\ UNCHANGED fora_thr
    /\ UNCHANGED <<relogio, ultimo_tempo_requisicao, limite_requisicoes_restante,
                   limite_taxa_atingido, thr_ret, ult_verif>>

\* lines 96-97: a True return makes the discovery loop call the throttle again
Reverificar ==
    /\ thr_pc = "liberado"
    /\ thr_ret = TRUE
    /\ thr_pc' = "ocioso"
    /\ UNCHANGED fora_thr
    /\ UNCHANGED <<relogio, ultimo_tempo_requisicao, limite_requisicoes_restante,
                   limite_taxa_atingido, thr_ret, inicio_chamada, intervalo, ult_verif>>

\* tratar_limite_taxa_atingido (lines 80-86)
TratarLimiteTaxaAtingido ==
    /\ thr_pc = "quota"
    /\ relogio' = relogio + ESPERA_LIMITE_TAXA
    /\ limite_taxa_atingido' = TRUE
    /\ ultimo_tempo_requisicao' = relogio'
    /\ thr_pc' = "ocioso"
    /\ UNCHANGED fora_thr
    /\ UNCHANGED <<limite_requisicoes_restante, thr_ret, inicio_chamada, intervalo,
                   ult_verif>>

\* the caller works between two uses of the throttle
Passar ==
    /\ thr_pc = "ocioso"
    /\ relogio <= MaxRelogio
    /\ \E d \in Passos : relogio' = relogio + d
    /\ UNCHANGED fora_thr
    /\ UNCHANGED <<ultimo_tempo_requisicao, limite_requisicoes_restante,
                   limite_taxa_atingido, thr_pc, thr_ret, inicio_chamada, intervalo,
                   ult_verif>>

NextThrottle ==
    \/ VerificarFalha
    \/ VerificarLimiteTaxa
    \/ ChamadaRemota
    \/ Reverificar
    \/ TratarLimiteTaxaAtingido
    \/ Passar

InitThrottle == InitThr /\ InitCls /\ InitExecOcioso /\ InitConc /\ InitDetOcioso

\* C3: the starts of two successive remote calls are never less than
\* DELAY_REQUISICAO apart, and a verificar_limite_taxa that observed a remaining
\* quota under the low-water mark does not return before the reported reset
\* time plus the margin.
C3_EspacamentoEEspera ==
    /\ intervalo.tem => intervalo.em >= DELAY_REQUISICAO
    /\ (thr_pc = "liberado" /\ ~ult_verif.falhou
          /\ ult_verif.restante < LIMITE_RESTANTE_MINIMO)
        => ult_verif.retornou_em >= ult_verif.reset + MARGEM_RESET

SpecThrottle == InitThrottle /\ [][NextThrottle]_vars

(***************************************************************************)
(* SpecConcorrente: the MAX_THREADS workers of the pool (line 225) call    *)
(* verificar_limite_taxa from obter_dados_pr_seguro (lines 147, 183, 186)  *)
(* and then issue their remote call.  The class holds no lock: the steps   *)
(* of the workers interleave at every read and write of self's fields and  *)
(* at every time.sleep.                                                    *)
(***************************************************************************)
MaxRelogioConc == 20

fora_conc == <<vars_cls, vars_exec, vars_det, thr_pc, thr_ret, ult_verif>>

\* lines 58-62: the worker reads the clock and self.ultimo_tempo_requisicao and
\* goes to sleep for what is left of DELAY_REQUISICAO
W_Ler ==
    \E w \in Workers :
        /\ w_pc[w] = "fora"
        /\ relogio <= MaxRelogioConc
        /\ w_agora' = [w_agora EXCEPT ![w] = relogio]
        /\ w_acorda' = [w_acorda EXCEPT ![w] =
                            fim_espera_delay(relogio, ultimo_tempo_requisicao)]
        /\ w_pc' = [w_pc EXCEPT ![w] = "dormindo"]
        /\ UNCHANGED <<relogio, ultimo_tempo_requisicao, limite_requisicoes_restante,
                       limite_taxa_atingido, inicio_chamada, intervalo>>
        /\ UNCHANGED fora_conc

\* lines 65-78: the sleep is over, get_rate_limit() answers (restante, reset),
\* the two fields are written and the worker returns or sleeps until the reset
W_Consultar ==
    \E w \in Workers, restante \in Restantes, dr \in Resets :
        LET tempo_reset == relogio + dr
            tempo_espera == (tempo_reset - w_agora[w]) + MARGEM_RESET
        IN  /\ w_pc[w] = "dormindo"
            /\ relogio >= w_acorda[w]
            /\ limite_requisicoes_restante' = restante
            /\ ultimo_tempo_requisicao' = relogio
            /\ IF restante < LIMITE_RESTANTE_MINIMO /\ tempo_espera >= 0
               THEN /\ w_pc' = [w_pc EXCEPT ![w] = "esperando"]
                    /\ w_acorda' = [w_acorda EXCEPT ![w] = relogio + tempo_espera]
               ELSE /\ w_pc' = [w_pc EXCEPT ![w] = "liberado"]
                    /\ w_acorda' = [w_acorda EXCEPT ![w] = 0]
            /\ w_agora' = [w_agora EXCEPT ![w] = 0]
            /\ UNCHANGED <<relogio, limite_taxa_atingido, inicio_chamada, intervalo>>
            /\ UNCHANGED fora_conc

\* lines 73-74: the sleep until the reset is over, True is returned
W_Retomar ==
    \E w \in Workers :
        /\ w_pc[w] = "esperando"
        /\ relogio >= w_acorda[w]
        /\ w_pc' = [w_pc EXCEPT ![w] = "liberado"]
        /\ w_acorda' = [w_acorda EXCEPT ![w] = 0]
        /\ UNCHANGED <<relogio, ultimo_tempo_requisicao, limite_requisicoes_restante,
                       limite_taxa_atingido, inicio_chamada, intervalo, w_agora>>
        /\ UNCHANGED fora_conc

\* lines 148, 184, 187: the worker's remote call starts
W_Chamada ==
    \E w \in Workers :
        /\ w_pc[w] = "liberado"
        /\ inicio_chamada' = Algum(relogio)
        /\ intervalo' = IF inicio_chamada.tem THEN Algum(relogio - inicio_chamada.em)
                         ELSE Nenhum
        /\ w_pc' = [w_pc EXCEPT ![w] = "fora"]
        /\ UNCHANGED <<relogio, ultimo_tempo_requisicao, limite_requisicoes_restante,
                       limite_taxa_atingido, w_agora, w_acorda>>
        /\ UNCHANGED fora_conc

\* time passes
Tique ==
    /\ relogio <= MaxRelogioConc
    /\ relogio' = relogio + 5
    /\ UNCHANGED <<ultimo_tempo_requisicao, limite_requisicoes_restante,
                   limite_taxa_atingido, inicio_chamada, intervalo, w_pc, w_agora,
                   w_acorda>>
    /\ UNCHANGED fora_conc

NextConcorrente ==
    \/ W_Ler
    \/ W_Consultar
    \/ W_Retomar
    \/ W_Chamada
    \/ Tique

\* C11: whatever the interleaving of the workers inside verificar_limite_taxa,
\* with get_rate_limit() never failing, the remote calls of the workers never
\* start less than DELAY_REQUISICAO apart.
C11_ThrottleSerializado ==
    intervalo.tem => intervalo.em >= DELAY_REQUISICAO

SpecConcorrente == InitThrottle /\ [][NextConcorrente]_vars


(***************************************************************************)
(* Spec: executar (lines 269-287); SpecRetomada: the script run            *)
(* MaxExecucoes times against the same remote state and the same files.    *)
(***************************************************************************)
MaxExecucoes == 2

\* what github_pr_reviews_antigo.csv may hold when the script first starts
\* (x1, x2, x3 are repositories the search does not return)
AntigosIniciais == {{}, {"r1"}, {"r1", "x1", "x2"}, {"r1", "x1", "x2", "x3"}}

\* what github_pr_reviews_novo.csv may hold when the script first starts: nothing,
\* or the retried record of r3's pull request 1 that an earlier run left
NovosIniciais ==
    {ArquivoAusente,
     [existe |-> TRUE, linhas |-> <<pr_data(PRRemoto("r3", 1), "r3", 1, 2)>>]}

Repos_de(linhas) == {linhas[i].repo : i \in 1..Len(linhas)}

\* carregar_repositorios_processados (lines 45-54): the set of the values of
\* the repo column of ARQUIVO_SAIDA_ANTIGO.  arquivo_antigo is what read_csv
\* yields of that column: it is empty as well when the file is absent or
\* read_csv raises (lines 48, 53-54), which leaves the empty set of line 29.
carregar_repositorios_processados(antigo) == antigo

\* __init__ (lines 24-30)
Construtor ==
    /\ limite_taxa_atingido' = FALSE
    /\ repositorios_processados' = carregar_repositorios_processados(arquivo_antigo)
    /\ persistidos_antes' = Repos_de(arquivo_novo.linhas)
    /\ exec_pc' = "descoberta"
    /\ repositorios' = <<>>
    /\ tentativas' = 0
    /\ pos' = 0
    /\ idx' = 0
    /\ pendentes' = <<>>
    /\ em_execucao' = {}
    /\ dados_pr' = <<>>
    /\ novos_dados_pr' = <<>>
    /\ a_gravar' = <<>>
    /\ consultados' = {}
    /\ buscas_ok' = {}
    /\ limite_na_coleta' = FALSE
    /\ listagens_quota' = 0

InitExec ==
    /\ run = 1
    /\ arquivo_antigo \in AntigosIniciais
    /\ arquivo_novo \in NovosIniciais
    /\ limite_taxa_atingido = FALSE
    /\ repositorios_processados = carregar_repositorios_processados(arquivo_antigo)
    /\ persistidos_antes = Repos_de(arquivo_novo.linhas)
    /\ exec_pc = "descoberta"
    /\ repositorios = <<>>
    /\ tentativas = 0
    /\ pos = 0
    /\ idx = 0
    /\ pendentes = <<>>
    /\ em_execucao = {}
    /\ dados_pr = <<>>
    /\ novos_dados_pr = <<>>
    /\ a_gravar = <<>>
    /\ consultados = {}
    /\ coletados = {}
    /\ duravel = Chaves(arquivo_novo.linhas)
    /\ houve_falha = FALSE
    /\ chaves_iniciais = Chaves(arquivo_novo.linhas)
    /\ buscas_ok = {}
    /\ limite_na_coleta = FALSE
    /\ listagens_quota = 0

\* the script is started again on the same files
NovaExecucao ==
    /\ exec_pc \in {"concluido", "terminado"}
    /\ run < MaxExecucoes
    /\ run' = run + 1
    /\ Construtor
    /\ UNCHANGED <<arquivo_antigo, arquivo_novo, coletados, duravel, houve_falha,
                   chaves_iniciais>>
    /\ UNCHANGED fora_exec

(***************************************************************************)
(* obter_repositorios_top (lines 88-139).                                  *)
(***************************************************************************)
\* line 92
repos_needed == MAX_REPOSITORIOS - Cardinality(repositorios_processados)

\* line 94: the condition of the while loop
ContinuaBusca == Len(repositorios) < repos_needed /\ tentativas < MAX_TENTATIVAS

\* the process ends, normally ("concluido") or not ("terminado"): what it held
\* in memory is gone, the two files stay
Encerra(fim) ==
    /\ exec_pc' = fim
    /\ repositorios_processados' = {}
    /\ repositorios' = <<>>
    /\ tentativas' = 0
    /\ pos' = 0
    /\ idx' = 0
    /\ pendentes' = <<>>
    /\ em_execucao' = {}
    /\ dados_pr' = <<>>
    /\ novos_dados_pr' = <<>>
    /\ a_gravar' = <<>>
    /\ consultados' = {}
    /\ limite_taxa_atingido' = FALSE
    /\ buscas_ok' = {}
    /\ limite_na_coleta' = FALSE
    /\ listagens_quota' = 0
    /\ UNCHANGED <<run, arquivo_antigo, coletados, persistidos_antes, chaves_iniciais>>
    /\ UNCHANGED fora_exec

\* line 105: the for loop is about to fetch a further page of results (the first
\* page is fetched when the loop starts)
BuscaOutraPagina ==
    /\ pos <= Len(Busca)
    /\ pos > 1
    /\ (pos - 1) % PER_PAGE = 0

\* line 273 on: executar goes over the list obter_repositorios_top returned
Retorna ==
    /\ IF repositorios = <<>>
       THEN Encerra("concluido")
       ELSE /\ exec_pc' = "listando"
            /\ idx' = 1
            /\ UNCHANGED <<run, arquivo_antigo, repositorios_processados,
                           repositorios, tentativas, pos, pendentes, em_execucao,
                           dados_pr, novos_dados_pr, a_gravar, consultados, coletados,
                           persistidos_antes, limite_taxa_atingido, chaves_iniciais,
                           buscas_ok, limite_na_coleta, listagens_quota>>
            /\ UNCHANGED fora_exec
    /\ UNCHANGED <<arquivo_novo, duravel, houve_falha>>

\* what a step of the discovery leaves alone
ForaDescoberta == <<run, arquivo_antigo, arquivo_novo, repositorios_processados, idx,
                    pendentes, em_execucao, dados_pr, novos_dados_pr, a_gravar,
                    coletados, persistidos_antes, duravel, houve_falha,
                    chaves_iniciais, buscas_ok, limite_na_coleta, listagens_quota>>

\* line 94 false: the while loop ends, line 139 returns
BuscaTermina ==
    /\ exec_pc = "descoberta"
    /\ ~ContinuaBusca
    /\ Retorna

\* lines 96-97: verificar_limite_taxa returned True, `continue`
BuscaEspera ==
    /\ exec_pc = "descoberta"
    /\ ContinuaBusca
    /\ UNCHANGED vars

\* lines 99-105: the search is issued and its first result fetched
BuscaInicia ==
    /\ exec_pc = "descoberta"
    /\ ContinuaBusca
    /\ exec_pc' = "iterando"
    /\ pos' = 1
    /\ UNCHANGED <<repositorios, tentativas, consultados, limite_taxa_atingido>>
    /\ UNCHANGED ForaDescoberta
    /\ UNCHANGED fora_exec

\* lines 131-133: the search, or the fetch of its next result, raised
\* RateLimitExceededException
BuscaFalhaQuota ==
    /\ \/ exec_pc = "descoberta" /\ ContinuaBusca
       \/ exec_pc = "iterando" /\ BuscaOutraPagina
    /\ limite_taxa_atingido' = TRUE
    /\ tentativas' = tentativas + 1
    /\ exec_pc' = "descoberta"
    /\ UNCHANGED <<repositorios, pos, consultados>>
    /\ UNCHANGED ForaDescoberta
    /\ UNCHANGED fora_exec

\* lines 134-137: the search, or the fetch of its next result, raised another
\* exception
BuscaFalhaErro ==
    /\ \/ exec_pc = "descoberta" /\ ContinuaBusca
       \/ exec_pc = "iterando" /\ BuscaOutraPagina
    /\ tentativas' = tentativas + 1
    /\ exec_pc' = "descoberta"
    /\ UNCHANGED <<repositorios, pos, consultados, limite_taxa_atingido>>
    /\ UNCHANGED ForaDescoberta
    /\ UNCHANGED fora_exec

\* lines 105-107 and 129: the results are exhausted, or enough were admitted
IterTermina ==
    /\ exec_pc = "iterando"
    /\ pos > Len(Busca) \/ Len(repositorios) >= repos_needed
    /\ Retorna

\* the guard of lines 109-110 with the test dropped
ja_processado_sem_teste(repo) == FALSE

\* lines 109-110: repo.full_name in self.repositorios_processados
ja_processado(repo) == repo \in repositorios_processados

\* the for loop is at a result that is not skipped
IterNoRepo ==
    /\ exec_pc = "iterando"
    /\ pos <= Len(Busca)
    /\ Len(repositorios) < repos_needed
    /\ ~ja_processado(Busca[pos])

\* lines 109-110: `continue`
IterPula ==
    /\ exec_pc = "iterando"
    /\ pos <= Len(Busca)
    /\ Len(repositorios) < repos_needed
    /\ ja_processado(Busca[pos])
    /\ pos' = pos + 1
    /\ UNCHANGED <<exec_pc, repositorios, tentativas, consultados, limite_taxa_atingido>>
    /\ UNCHANGED ForaDescoberta
    /\ UNCHANGED fora_exec

\* lines 113-114: verificar_limite_taxa returned True or the hard-limit flag is set
IterRetornaCedo ==
    /\ IterNoRepo
    /\ Retorna

\* line 118 with the test dropped
admite_mutante(contagem) == TRUE

\* line 118: contagem_prs >= MIN_PRS
admite(contagem) == contagem >= MIN_PRS

\* lines 116-120: the pull requests are counted, the repository admitted or not
IterConta ==
    /\ IterNoRepo
    /\ ~limite_taxa_atingido
    /\ consultados' = consultados \cup {Busca[pos]}
    /\ repositorios' = IF admite(contagem_prs(Busca[pos]))
                       THEN Append(repositorios, Busca[pos])
                       ELSE repositorios
    /\ pos' = pos + 1
    /\ UNCHANGED <<exec_pc, tentativas, limite_taxa_atingido>>
    /\ UNCHANGED ForaDescoberta
    /\ UNCHANGED fora_exec

\* lines 122-124: the count raised RateLimitExceededException
IterContaQuota ==
    /\ IterNoRepo
    /\ ~limite_taxa_atingido
    /\ consultados' = consultados \cup {Busca[pos]}
    /\ limite_taxa_atingido' = TRUE
    /\ pos' = pos + 1
    /\ UNCHANGED <<exec_pc, repositorios, tentativas>>
    /\ UNCHANGED ForaDescoberta
    /\ UNCHANGED fora_exec

\* lines 126-128: the count raised another exception
IterContaErro ==
    /\ IterNoRepo
    /\ ~limite_taxa_atingido
    /\ consultados' = consultados \cup {Busca[pos]}
    /\ pos' = pos + 1
    /\ UNCHANGED <<exec_pc, repositorios, tentativas, limite_taxa_atingido>>
    /\ UNCHANGED ForaDescoberta
    /\ UNCHANGED fora_exec

(***************************************************************************)
(* coletar_prs_repositorio (lines 217-245).                                *)
(***************************************************************************)
ForaColeta == <<run, arquivo_antigo, arquivo_novo, repositorios_processados,
                repositorios, tentativas, pos, idx, a_gravar, consultados,
                persistidos_antes, duravel, houve_falha, chaves_iniciais>>

\* how many listings of one repository may raise RateLimitExceededException
MaxListagens == 3

\* lines 222-226: the pull requests are listed and submitted to the pool
Listar ==
    /\ exec_pc = "listando"
    /\ pendentes' = PRsDe(repositorios[idx])
    /\ em_execucao' = {}
    /\ dados_pr' = <<>>
    /\ exec_pc' = "coletando"
    /\ buscas_ok' = {}
    /\ listagens_quota' = 0
    /\ UNCHANGED <<novos_dados_pr, coletados, limite_taxa_atingido, limite_na_coleta>>
    /\ UNCHANGED ForaColeta
    /\ UNCHANGED fora_exec

\* lines 238-240: the listing raised RateLimitExceededException; after the
\* cooldown coletar_prs_repositorio calls itself on the same repository
ListarQuota ==
    /\ exec_pc = "listando"
    /\ listagens_quota < MaxListagens
    /\ listagens_quota' = listagens_quota + 1
    /\ limite_taxa_atingido' = TRUE
    /\ limite_na_coleta' = TRUE
    /\ UNCHANGED <<exec_pc, pendentes, em_execucao, dados_pr, novos_dados_pr, coletados,
                   buscas_ok>>
    /\ UNCHANGED ForaColeta
    /\ UNCHANGED fora_exec

\* lines 241-245 and 279: the listing raised another exception; the repository
\* yields no record and executar goes on to salvar_para_csv
ListarErro ==
    /\ exec_pc = "listando"
    /\ dados_pr' = <<>>
    /\ exec_pc' = "salvando"
    /\ listagens_quota' = 0
    /\ UNCHANGED <<pendentes, em_execucao, novos_dados_pr, coletados,
                   limite_taxa_atingido, buscas_ok, limite_na_coleta>>
    /\ UNCHANGED ForaColeta
    /\ UNCHANGED fora_exec

\* line 225: a worker of the pool takes the next submitted pull request
IniciarTarefa ==
    /\ exec_pc = "coletando"
    /\ pendentes # <<>>
    /\ Cardinality(em_execucao) < MAX_THREADS
    /\ em_execucao' = em_execucao \cup {Head(pendentes)}
    /\ pendentes' = Tail(pendentes)
    /\ UNCHANGED <<exec_pc, dados_pr, novos_dados_pr, coletados, limite_taxa_atingido,
                   buscas_ok, limite_na_coleta, listagens_quota>>
    /\ UNCHANGED ForaColeta
    /\ UNCHANGED fora_exec

\* a fetch that met no failure it could not retry: its attempts ended in
\* RateLimitExceededException up to one, within the budget, that met no failure
BuscaSemFalha(falhas) ==
    \E t \in 1..(MAX_TENTATIVAS + 1) :
        /\ falhas[t] = "nenhuma"
        /\ \A u \in 1..(t - 1) : falhas[u] = "quota"

\* the failure patterns that tell the fetches of one pull request apart: a pull
\* request the classifier rejects returns None with no cooldown under every
\* pattern (lines 157-158, 163-164), so one pattern stands for all
FalhasDe(nome_repo, n) ==
    IF eh_pr_revisado_por_humano(PRRemoto(nome_repo, n), "nenhuma") = "True"
    THEN FalhasPorTentativa
    ELSE {[t \in 1..(MAX_TENTATIVAS + 1) |-> "nenhuma"]}

\* the result list of lines 228-236 that loses the records gathered before
acumular_perdendo(dados, resultado) ==
    IF resultado.tem THEN <<resultado.val>> ELSE <<>>

\* lines 230-232: `if resultado: dados_pr.append(resultado)`
acumular(dados, resultado) ==
    IF resultado.tem THEN Append(dados, resultado.val) ELSE dados

\* lines 226-236: obter_dados_pr_seguro ends for one pull request and
\* as_completed hands its result over
ConcluirTarefa ==
    /\ exec_pc = "coletando"
    /\ \E n \in em_execucao : \E falhas \in FalhasDe(repositorios[idx], n) :
          LET nome_repo == repositorios[idx]
              r == obter_dados_pr_seguro(PRRemoto(nome_repo, n), nome_repo, n, 1, falhas)
          IN  /\ em_execucao' = em_execucao \ {n}
              /\ dados_pr' = acumular(dados_pr, r.registro)
              /\ limite_taxa_atingido' = (limite_taxa_atingido \/ r.cooldowns > 0)
              /\ limite_na_coleta' = (limite_na_coleta \/ r.cooldowns > 0)
              /\ buscas_ok' =
                     IF /\ BuscaSemFalha(falhas)
                        /\ eh_pr_revisado_por_humano(PRRemoto(nome_repo, n), "nenhuma")
                               = "True"
                     THEN buscas_ok \cup {n}
                     ELSE buscas_ok
    /\ UNCHANGED <<exec_pc, pendentes, novos_dados_pr, coletados, listagens_quota>>
    /\ UNCHANGED ForaColeta
    /\ UNCHANGED fora_exec

\* the pool left without waiting for the running workers
todos_concluidos_mutante == pendentes = <<>>

\* lines 225-236: as_completed has yielded every future and the `with` block
\* has shut the pool down, which waits for its workers
todos_concluidos == pendentes = <<>> /\ em_execucao = {}

\* lines 244-245 and 278-279: every future is done, the pool is shut down,
\* dados_pr is returned and executar extends novos_dados_pr with it
Juntar ==
    /\ exec_pc = "coletando"
    /\ todos_concluidos
    /\ novos_dados_pr' = novos_dados_pr \o dados_pr
    /\ coletados' = coletados \cup Chaves(dados_pr)
    /\ dados_pr' = <<>>
    /\ buscas_ok' = {}
    /\ exec_pc' = "salvando"
    /\ UNCHANGED <<pendentes, em_execucao, limite_taxa_atingido, limite_na_coleta,
                   listagens_quota>>
    /\ UNCHANGED ForaColeta
    /\ UNCHANGED fora_exec

(***************************************************************************)
(* executar, lines 280-283: salvar_para_csv and the step to the next       *)
(* repository.                                                             *)
(***************************************************************************)
ForaSalvar == <<run, arquivo_antigo, repositorios_processados, repositorios,
                tentativas, pos, pendentes, em_execucao, dados_pr, novos_dados_pr,
                consultados, coletados, persistidos_antes, limite_taxa_atingido,
                chaves_iniciais, buscas_ok, limite_na_coleta, listagens_quota>>

\* lines 276 and 281-283: the for loop moves on, or ends and the script with it
Avanca ==
    IF idx < Len(repositorios)
    THEN /\ exec_pc' = "listando"
         /\ idx' = idx + 1
         /\ a_gravar' = <<>>
         /\ UNCHANGED ForaSalvar
         /\ UNCHANGED fora_exec
    ELSE Encerra("concluido")

\* lines 266-267: read_csv raised (EmptyDataError on a file without lines, or an
\* I/O error), or to_csv could not open the file; the exception is printed
SalvarFalha ==
    /\ exec_pc = "salvando"
    /\ Avanca
    /\ houve_falha' = (houve_falha \/ salvar_para_csv(arquivo_novo, novos_dados_pr).ok)
    /\ UNCHANGED <<arquivo_novo, duravel>>

\* line 263: to_csv opens the file for writing, which truncates it
SalvarAbre ==
    /\ exec_pc = "salvando"
    /\ salvar_para_csv(arquivo_novo, novos_dados_pr).ok
    /\ a_gravar' = salvar_para_csv(arquivo_novo, novos_dados_pr).linhas
    /\ arquivo_novo' = [existe |-> TRUE, linhas |-> <<>>]
    /\ exec_pc' = "gravando"
    /\ UNCHANGED <<idx, duravel, houve_falha>>
    /\ UNCHANGED ForaSalvar
    /\ UNCHANGED fora_exec

\* lines 263-264: to_csv has written every line
SalvarConclui ==
    /\ exec_pc = "gravando"
    /\ arquivo_novo' = [existe |-> TRUE, linhas |-> a_gravar]
    /\ duravel' = duravel \cup Chaves(a_gravar)
    /\ Avanca
    /\ UNCHANGED houve_falha

\* lines 263 and 266-267: to_csv raised after k lines (the disk is full); the
\* exception is printed and executar goes on
SalvarFalhaEscrita ==
    /\ exec_pc = "gravando"
    /\ \E k \in 0..(Len(a_gravar) - 1) :
          arquivo_novo' = [existe |-> TRUE, linhas |-> SubSeq(a_gravar, 1, k)]
    /\ houve_falha' = TRUE
    /\ Avanca
    /\ UNCHANGED duravel

\* the process is terminated while to_csv has written k lines
TerminaGravando ==
    /\ exec_pc = "gravando"
    /\ \E k \in 0..(Len(a_gravar) - 1) :
          arquivo_novo' = [existe |-> TRUE, linhas |-> SubSeq(a_gravar, 1, k)]
    /\ houve_falha' = TRUE
    /\ Encerra("terminado")
    /\ UNCHANGED duravel

\* the process is terminated anywhere else
Termina ==
    /\ exec_pc \in {"descoberta", "iterando", "listando", "coletando", "salvando"}
    /\ Encerra("terminado")
    /\ houve_falha' = TRUE
    /\ UNCHANGED <<arquivo_novo, duravel>>

Init == InitExec /\ InitRelogio /\ InitCls /\ InitConc /\ InitDetOcioso

Next ==
    \/ BuscaTermina
    \/ BuscaEspera
    \/ BuscaInicia
    \/ BuscaFalhaQuota
    \/ BuscaFalhaErro
    \/ IterTermina
    \/ IterPula
    \/ IterRetornaCedo
    \/ IterConta
    \/ IterContaQuota
    \/ IterContaErro
    \/ Listar
    \/ ListarQuota
    \/ ListarErro
    \/ IniciarTarefa
    \/ ConcluirTarefa
    \/ Juntar
    \/ SalvarFalha
    \/ SalvarAbre
    \/ SalvarConclui
    \/ SalvarFalhaEscrita
    \/ TerminaGravando
    \/ Termina

Spec == Init /\ [][Next]_vars

\* the script run MaxExecucoes times on the same files
NextRetomada ==
    \/ Next
    \/ NovaExecucao

SpecRetomada == Init /\ [][NextRetomada]_vars


(***************************************************************************)
(* Properties of executar.                                                 *)
(***************************************************************************)
SemDuplicatas(linhas) ==
    \A i, j \in 1..Len(linhas) : Chave(linhas[i]) = Chave(linhas[j]) => i = j

Elementos(seq) == {seq[i] : i \in 1..Len(seq)}

\* the last record of `dados` with key k
UltimoCom(dados, k) ==
    LET is == {i \in 1..Len(dados) : Chave(dados[i]) = k}
    IN  dados[CHOOSE i \in is : \A j \in is : j <= i]

LinhasCom(linhas, k) == {i \in 1..Len(linhas) : Chave(linhas[i]) = k}

\* C1: when the script has run twice to its end, with no persist meeting an I/O
\* error and the process never killed, no two lines of the store share the key
\* (repo, pr_number), and the keys of the store are those it held at first and
\* those of the records the two runs collected.
C1_RetomadaIdempotente ==
    (run = 2 /\ exec_pc = "concluido" /\ ~houve_falha) =>
        /\ SemDuplicatas(arquivo_novo.linhas)
        /\ Chaves(arquivo_novo.linhas) = chaves_iniciais \cup coletados

\* C2: when salvar_para_csv merges records whose key the store already holds,
\* the line of that key afterwards is the new record (the last one of that key)
\* and the store has as many lines of that key as before.
C2_UltimaEscritaVence ==
    [][(exec_pc = "salvando" /\ exec_pc' = "gravando") =>
          \A k \in Chaves(novos_dados_pr) \cap Chaves(arquivo_novo.linhas) :
              /\ \A i \in LinhasCom(a_gravar', k) :
                     a_gravar'[i] = UltimoCom(novos_dados_pr, k)
              /\ Cardinality(LinhasCom(a_gravar', k))
                     = Cardinality(LinhasCom(arquivo_novo.linhas, k))]_vars

\* a pull request the claim calls qualifying
QualificaRemoto(r, n) == QualificaC4(PRRemoto(r, n))

\* C5: whatever failed for the other pull requests of a repository, every
\* qualifying pull request whose own fetch met no failure it could not retry has
\* its record in dados_pr once its future is done, and in novos_dados_pr once
\* the pool is joined; from there executar persists and goes on to the next
\* repository (or ends after the last), unless the process is killed.
C5_FalhaParcialIsolada ==
    [][/\ (exec_pc' = "coletando") =>
              \A n \in buscas_ok' :
                  QualificaRemoto(repositorios'[idx'], n) =>
                      <<repositorios'[idx'], n>> \in Chaves(dados_pr')
       /\ (exec_pc = "coletando" /\ exec_pc' # "coletando") =>
              /\ exec_pc' \in {"salvando", "terminado"}
              /\ exec_pc' = "salvando" =>
                     /\ pendentes = <<>> /\ em_execucao = {}
                     /\ \A n \in buscas_ok :
                            QualificaRemoto(repositorios[idx], n) =>
                                <<repositorios[idx], n>> \in Chaves(novos_dados_pr')
                     /\ Elementos(novos_dados_pr) \subseteq Elementos(novos_dados_pr')
       /\ (exec_pc \in {"salvando", "gravando"} /\ exec_pc' \notin {"gravando", "terminado"}
            /\ exec_pc' # exec_pc) =>
              IF idx < Len(repositorios)
              THEN exec_pc' = "listando" /\ idx' = idx + 1
              ELSE exec_pc' = "concluido"]_vars

\* C5 witness: r3 was processed first (r1 is in the checkpoint), the fetch of
\* one of its two qualifying pull requests failed for good, the other one's
\* record was collected and persisted, and executar is at the next repository
C5_Witness ==
    /\ exec_pc = "listando"
    /\ idx = 2
    /\ repositorios = <<"r3", "r4">>
    /\ Len(novos_dados_pr) = 1
    /\ Chaves(novos_dados_pr) \subseteq Chaves(arquivo_novo.linhas)

\* C6: a search result whose name is in repositorios_processados has no pull
\* request count queried and is never in the list of candidates.
C6_CandidatoPulado ==
    /\ consultados \cap repositorios_processados = {}
    /\ Elementos(repositorios) \cap repositorios_processados = {}

\* C6 witness: r1 is in the checkpoint, the loop went past it and admitted r3
C6_Witness ==
    /\ repositorios_processados = {"r1"}
    /\ exec_pc = "iterando"
    /\ repositorios = <<"r3">>
    /\ consultados = {"r2", "r3"}

\* C7: in a later run, a repository with lines in the store at startup is in
\* repositorios_processados and is not among the candidates.
C7_NaoRefazTrabalho ==
    (run > 1 /\ exec_pc \notin {"concluido", "terminado"}) =>
        \A r \in persistidos_antes :
            /\ r \in repositorios_processados
            /\ r \notin Elementos(repositorios)

\* C8: whenever no write is under way, also after the process was killed, the
\* store holds every key it held when it was last at rest.
C8_DadosIntactos ==
    exec_pc # "gravando" => duravel \subseteq Chaves(arquivo_novo.linhas)

\* C9: while a repository is listed or its pull requests are fetched, and no
\* persist met an I/O error, the store holds the key of every record this run
\* collected for the repositories before it.
C9_PerdaLimitada ==
    (exec_pc \in {"listando", "coletando"} /\ ~houve_falha) =>
        Chaves(novos_dados_pr) \subseteq Chaves(arquivo_novo.linhas)

\* C13: the listing of a repository is retried once after a quota failure: it
\* never raises RateLimitExceededException more than twice for one repository.
C13_ListagemLimitada ==
    listagens_quota <= 2

\* C10: once a worker or the listing has set the hard-limit flag, executar
\* starts no further repository.
C10_CancelaAposLimite ==
    [][limite_na_coleta => ~(exec_pc # "listando" /\ exec_pc' = "listando")]_vars

\* C16: obter_repositorios_top returns fewer than repos_needed candidates only
\* when the search results are exhausted, MAX_TENTATIVAS searches have failed
\* or the hard-limit flag is set.
C16_DescobertaSoDesiste ==
    [][(exec_pc \in {"descoberta", "iterando"}
          /\ exec_pc' \in {"listando", "concluido"}) =>
            \/ Len(repositorios) >= repos_needed
            \/ exec_pc = "iterando" /\ pos > Len(Busca)
            \/ tentativas >= MAX_TENTATIVAS
            \/ limite_taxa_atingido]_vars

\* C17: every repository in the list obter_repositorios_top builds has at least
\* MIN_PRS pull requests, and the list never has more than repos_needed
\* elements: none when repos_needed is zero or negative.
C17_AdmissaoDescoberta ==
    /\ \A i \in 1..Len(repositorios) : contagem_prs(repositorios[i]) >= MIN_PRS
    /\ Len(repositorios) <= (IF repos_needed > 0 THEN repos_needed ELSE 0)

\* C17 witness: with r1 in the checkpoint two repositories are needed; r2 was
\* counted and not admitted, r3 and r4 were, and the list was returned
C17_Witness ==
    /\ exec_pc = "listando"
    /\ repos_needed = 2
    /\ "r2" \in consultados
    /\ repositorios = <<"r3", "r4">>

\* C18: at most MAX_THREADS workers run at once, and none runs or waits to run
\* unless executar is inside coletar_prs_repositorio for their repository: not
\* while the store is written, nor while the next repository is listed.
C18_JuntaAntesDePersistir ==
    /\ Cardinality(em_execucao) <= MAX_THREADS
    /\ exec_pc # "coletando" => (em_execucao = {} /\ pendentes = <<>>)
    /\ exec_pc = "coletando" =>
           \A n \in em_execucao \cup Elementos(pendentes) :
               n \in Elementos(PRsDe(repositorios[idx]))

\* C18 witness: r4 has four pull requests: MAX_THREADS workers run and the
\* fourth pull request waits for one of them to end
C18_Witness ==
    /\ exec_pc = "coletando"
    /\ repositorios[idx] = "r4"
    /\ Cardinality(em_execucao) = MAX_THREADS
    /\ Len(pendentes) = 1

\* C19: the list of candidates obter_repositorios_top builds holds no
\* repository twice.
C19_CandidatosSemRepeticao ==
    \A i, j \in 1..Len(repositorios) : repositorios[i] = repositorios[j] => i = j

\* C20: immediately after a persist that succeeded (to_csv wrote every line it
\* was given), the store contains every record collected in the run so far.
C20_FalhaCurada ==
    [][(exec_pc = "gravando" /\ exec_pc' # "gravando"
          /\ arquivo_novo'.linhas = a_gravar) =>
            Elementos(novos_dados_pr) \subseteq Elementos(arquivo_novo'.linhas)]_vars

=============================================================================
